---- MODULE Spec2Model ----
(***************************************************************************)
(* Model of the Anthropic-to-OpenAI proxy, src/tcp-proxy-server/main.py:   *)
(* the request and response translators, the /v1/messages handler          *)
(* proxy_anthropic_request and its streaming generator generate().         *)
(*                                                                         *)
(* Python values whose type varies at one place (Optional fields, the      *)
(* polymorphic content field, JSON values of a raw body) are tagged        *)
(* records: None, Num(n), Str(s), List(l), Dict(d).  Python dicts are      *)
(* records whose DOMAIN is the set of keys present.                        *)
(***************************************************************************)
EXTENDS Integers, Sequences, FiniteSets, TLC

VARIABLES
    pc,             \* position of proxy_anthropic_request
    body,           \* the inbound JSON payload (request.json())
    anthropic_req,  \* the validated AnthropicRequest
    openai_request, \* anthropic_to_openai_format(anthropic_req)
    outcome,        \* what the handler handed back to the HTTP layer
    backend_calls,  \* keyword arguments of every acompletion() call made
    gen_pc,         \* position of the async generator generate()
    stream,         \* the backend's chunk stream returned by acompletion
    pos,            \* number of chunks pulled from the backend stream
    chunk,          \* the loop variable of `async for chunk in response`
    events,         \* the events generate() has yielded, in order
    demand,         \* the consumer is awaiting generate().__anext__()
    response,       \* what the non-streaming acompletion() call returned
    raised,         \* str(e) of the exception an except block caught, or ""
    closed,         \* the consumer has closed the event sequence
    calls           \* concurrent streaming calls: each one's generate() frame

vars == <<pc, body, anthropic_req, openai_request, outcome, backend_calls,
          gen_pc, stream, pos, chunk, events, demand, response, raised,
          closed, calls>>

\* the handler's own variables, and those of the streaming generator
handlerVars == <<pc, body, anthropic_req, openai_request, outcome, response>>
genVars == <<gen_pc, stream, pos, chunk, events, demand, closed, calls>>

-----------------------------------------------------------------------------
(* Python values *)

None == [none |-> TRUE]
Num(n) == [num |-> n]
Str(s) == [str |-> s]
List(l) == [list |-> l]
Dict(d) == [dict |-> d]

IsNone(v) == "none" \in DOMAIN v
IsNum(v) == "num" \in DOMAIN v
IsStr(v) == "str" \in DOMAIN v
IsList(v) == "list" \in DOMAIN v
IsDict(v) == "dict" \in DOMAIN v

EmptyDict == [k \in {} |-> 0]

\* Python truthiness (`if x`, `not x`, `a and b`) of a tagged value
Truthy(v) ==
    CASE IsNone(v) -> FALSE
      [] IsStr(v)  -> v.str # ""
      [] IsNum(v)  -> v.num # 0
      [] IsList(v) -> v.list # <<>>
      [] IsDict(v) -> DOMAIN v.dict # {}
      [] OTHER     -> TRUE

\* dict.get(key, default)
Get(d, k, default) == IF k \in DOMAIN d THEN d[k] ELSE default

-----------------------------------------------------------------------------
(* Configuration and the model mapping tables *)

LMSTUDIO_MODEL == "google/gemma-3-4b"

\* the base URL as tokens: a "/" is a token of its own
LMSTUDIO_BASE_URL == <<"http://localhost:1234">>

\* the keys of MODEL_MAPPING in insertion order
MODEL_MAPPING_KEYS ==
    << "claude-3-opus-20240229", "claude-3-sonnet-20240229",
       "claude-3-haiku-20240307", "claude-opus-4-5-20251101",
       "claude-sonnet-4-5-20250929", "claude-haiku-4-5-20251001" >>

MODEL_MAPPING ==
    [k \in {MODEL_MAPPING_KEYS[i] : i \in DOMAIN MODEL_MAPPING_KEYS} |-> LMSTUDIO_MODEL]

\* {v: k for k, v in MODEL_MAPPING.items()}: a later key overwrites an earlier
REVERSE_MODEL_MAPPING ==
    [v \in {MODEL_MAPPING[k] : k \in DOMAIN MODEL_MAPPING} |->
        LET idx == {i \in DOMAIN MODEL_MAPPING_KEYS :
                        MODEL_MAPPING[MODEL_MAPPING_KEYS[i]] = v}
            last == CHOOSE i \in idx : \A j \in idx : j <= i
        IN  MODEL_MAPPING_KEYS[last]]

RStripSlash(url) ==
    LET keep == {i \in 0..Len(url) : \A j \in (i+1)..Len(url) : url[j] = "/"}
        n == CHOOSE i \in keep : \A j \in keep : i <= j
    IN  SubSeq(url, 1, n)

normalize_openai_base(url) ==
    LET base == RStripSlash(url)
        n == Len(base)
        hasV1Slash == \E i \in 1..(n - 2) :
                         base[i] = "/" /\ base[i+1] = "v1" /\ base[i+2] = "/"
        endsV1 == n >= 2 /\ base[n-1] = "/" /\ base[n] = "v1"
    IN  IF hasV1Slash \/ endsV1 THEN base ELSE base \o <<"/", "v1">>

\* model names the prefix test is evaluated over
BackendNames == {LMSTUDIO_MODEL, "gpt-4"}

StartsWithOpenAI(name) == \E t \in BackendNames : name = "openai/" \o t

ensure_openai_model(model_name) ==
    IF StartsWithOpenAI(model_name) THEN model_name ELSE "openai/" \o model_name

-----------------------------------------------------------------------------
(* AnthropicRequest: validation of the raw payload *)

Bool(b) == [bool |-> b]
IsBool(v) == "bool" \in DOMAIN v

DefaultMaxTokens == 1024
MinMaxTokens == 1
MaxTemperature == 2
MaxTopP == 1

\* AnthropicMessage: role is a str, content a str or a list
ValidMessage(m) ==
    /\ DOMAIN m = {"role", "content"}
    /\ IsStr(m.content) \/ IsList(m.content)

\* Optional[float] = Field(default=None, ge=0.0, le=hi)
ValidOptionalRange(b, k, hi) ==
    k \in DOMAIN b =>
        \/ IsNone(b[k])
        \/ IsNum(b[k]) /\ 0 <= b[k].num /\ b[k].num <= hi

\* whether AnthropicRequest(**body) constructs, or raises ValidationError
ValidRequest(b) ==
    /\ "model" \in DOMAIN b /\ IsStr(b.model)
    /\ "messages" \in DOMAIN b /\ IsList(b.messages)
    /\ \A i \in DOMAIN b.messages.list : ValidMessage(b.messages.list[i])
    /\ "max_tokens" \in DOMAIN b =>
          IsNum(b.max_tokens) /\ b.max_tokens.num >= MinMaxTokens
    /\ ValidOptionalRange(b, "temperature", MaxTemperature)
    /\ ValidOptionalRange(b, "top_p", MaxTopP)
    /\ "stream" \in DOMAIN b => IsBool(b.stream)
    /\ "system" \in DOMAIN b =>
          IsNone(b.system) \/ IsStr(b.system) \/ IsList(b.system)

\* the AnthropicRequest object built from a valid body, defaults filled in
AnthropicRequest(b) ==
    [ model       |-> b.model.str,
      messages    |-> b.messages.list,
      max_tokens  |-> IF "max_tokens" \in DOMAIN b THEN b.max_tokens.num
                      ELSE DefaultMaxTokens,
      temperature |-> Get(b, "temperature", None),
      top_p       |-> Get(b, "top_p", None),
      stream      |-> IF "stream" \in DOMAIN b THEN b.stream.bool ELSE FALSE,
      system      |-> Get(b, "system", None) ]

-----------------------------------------------------------------------------
(* Content extractor *)

\* mutant: the text of every dict part is taken, whatever its type
PartText_AnyType(part) ==
    IF IsStr(part) THEN <<part.str>>
    ELSE IF IsDict(part) /\ "text" \in DOMAIN part.dict
         THEN <<part.dict.text>>
         ELSE <<>>

\* what one element of a content list appends to `parts`
PartText(part) ==
    IF IsStr(part) THEN <<part.str>>
    ELSE IF IsDict(part) /\ Get(part.dict, "type", "") = "text"
         THEN <<Get(part.dict, "text", "")>>
         ELSE <<>>

RECURSIVE JoinStrings(_)
JoinStrings(ss) ==
    IF ss = <<>> THEN "" ELSE Head(ss) \o JoinStrings(Tail(ss))

RECURSIVE CollectParts(_)
CollectParts(content) ==
    IF content = <<>> THEN <<>>
    ELSE PartText(Head(content)) \o CollectParts(Tail(content))

extract_text_blocks(content) ==
    IF ~Truthy(content) THEN ""
    ELSE IF IsStr(content) THEN content.str
    ELSE IF IsList(content) THEN JoinStrings(CollectParts(content.list))
    ELSE IF IsDict(content) /\ "text" \in DOMAIN content.dict
         THEN content.dict.text
         ELSE ""

-----------------------------------------------------------------------------
(* Request translator *)

\* lines 126-131: the system message, when the system text is non-empty
SystemMessages(req) ==
    LET system_text == extract_text_blocks(req.system)
    IN  IF system_text # "" THEN <<[role |-> "system", content |-> system_text]>>
        ELSE <<>>

HasContent(m) == m.content # ""

\* mutant: a message whose extracted text is empty is skipped
ConvertMessages_SkipEmpty(msgs) ==
    SelectSeq([i \in DOMAIN msgs |->
                  [role |-> msgs[i].role,
                   content |-> extract_text_blocks(msgs[i].content)]],
              HasContent)

\* lines 134-137: one OpenAI message per Anthropic message
ConvertMessages(msgs) ==
    [i \in DOMAIN msgs |->
        [role |-> msgs[i].role, content |-> extract_text_blocks(msgs[i].content)]]

\* mutant: the filter keeps the truthy values only (`if v`)
RemoveNone_Truthy(d) ==
    [k \in {x \in DOMAIN d : Truthy(d[x])} |-> d[k]]

\* {k: v for k, v in d.items() if v is not None}
RemoveNone(d) ==
    [k \in {x \in DOMAIN d : ~IsNone(d[x])} |-> d[k]]

anthropic_to_openai_format(req) ==
    LET default_model == LMSTUDIO_MODEL
        openai_model == ensure_openai_model(
                            Get(MODEL_MAPPING, req.model, default_model))
        openai_messages == SystemMessages(req) \o ConvertMessages(req.messages)
    IN  RemoveNone([ model       |-> Str(openai_model),
                     messages    |-> List(openai_messages),
                     temperature |-> req.temperature,
                     top_p       |-> req.top_p,
                     max_tokens  |-> Num(req.max_tokens) ])

-----------------------------------------------------------------------------
(* Response translator *)

\* mutant: the fallback is the backend's own identifier
ReverseModel_RawFallback(openai_response, original_model) ==
    LET reported == Get(openai_response, "model", "")
    IN  Get(REVERSE_MODEL_MAPPING, reported, reported)

\* REVERSE_MODEL_MAPPING.get(openai_response.get("model", ""), original_model)
ReverseModel(openai_response, original_model) ==
    Get(REVERSE_MODEL_MAPPING, Get(openai_response, "model", ""), original_model)

\* mutant: the degenerate response is built from defaults only
NoChoicesResponse_Defaults(openai_response, anthropic_model) ==
    [ id      |-> "",
      model   |-> anthropic_model,
      created |-> 0,
      usage   |-> EmptyDict,
      content |-> <<[type |-> "text", text |-> ""]>>,
      role    |-> "assistant" ]

\* lines 168-177: the response built when there are no choices
NoChoicesResponse(openai_response, anthropic_model) ==
    [ id      |-> Get(openai_response, "id", ""),
      model   |-> anthropic_model,
      created |-> Get(openai_response, "created", 0),
      usage   |-> Get(openai_response, "usage", EmptyDict),
      content |-> <<[type |-> "text", text |-> ""]>>,
      role    |-> "assistant" ]

\* lines 180-193: the response built from the first choice
FirstChoiceResponse(openai_response, anthropic_model) ==
    LET choice == openai_response.choices[1]
        message == Get(choice, "message", EmptyDict)
    IN  [ id            |-> Get(openai_response, "id", ""),
          model         |-> anthropic_model,
          created       |-> Get(openai_response, "created", 0),
          content       |-> <<[type |-> "text", text |-> Get(message, "content", "")]>>,
          role          |-> Get(message, "role", "assistant"),
          stop_reason   |-> Get(choice, "finish_reason", "stop"),
          stop_sequence |-> None,
          usage         |-> Get(openai_response, "usage", EmptyDict) ]

openai_to_anthropic_format(openai_response, original_model) ==
    LET anthropic_model == ReverseModel(openai_response, original_model)
        choices == Get(openai_response, "choices", <<>>)
    IN  IF choices = <<>>
        THEN NoChoicesResponse(openai_response, anthropic_model)
        ELSE FirstChoiceResponse(openai_response, anthropic_model)

dump_openai_response(resp) == resp

-----------------------------------------------------------------------------
(* The streaming generator generate(): events and the steps between yields *)

\* f"data: {json.dumps(payload)}\n\n"
SSE(payload) == [data |-> payload]

content_chunk(c) ==
    [ type  |-> "content_block_delta",
      index |-> 0,
      delta |-> [type |-> "text_delta", text |-> c.choices[1].delta.dict.content.str] ]

final_chunk(c) ==
    [ type  |-> "message_delta",
      delta |-> [stop_reason |-> c.choices[1].finish_reason.str,
                 stop_sequence |-> None] ]

stop_chunk == [type |-> "message_stop"]

error_chunk(e) ==
    [type |-> "error", error |-> [type |-> "api_error", message |-> e]]

AttributeErrorText == "'NoneType' object has no attribute 'content'"

\* A step of generate() runs to its next suspension: it yields `emit` (at most
\* one event) and stops at position `at`; `exc` is the exception caught on the
\* way, "" when none was raised.
Step(emit, at, exc) == [emit |-> emit, at |-> at, exc |-> exc]

\* mutant: the try/except sits inside the loop, which goes on after the error
ExceptBlock_InsideLoop(e) == Step(<<SSE(error_chunk(e))>>, "iter", e)

\* mutant: the except block starts the streaming call again
ExceptBlock_Retry(e) == Step(<<>>, "start", e)

\* lines 304-310: the except block yields one error event; the generator
\* then runs off its end
ExceptBlock(e) == Step(<<SSE(error_chunk(e))>>, "after_error", e)

\* line 289 on: the finish_reason test of the current chunk
Line289(c) ==
    IF c.choices # <<>> /\ Truthy(c.choices[1].finish_reason)
    THEN Step(<<SSE(final_chunk(c))>>, "after_delta", "")
    ELSE Step(<<>>, "iter", "")

\* line 277 on: the text test of a chunk just pulled; chunk.choices[0].delta
\* .content raises AttributeError when delta is None
Line277(c) ==
    IF c.choices # <<>> /\ IsNone(c.choices[1].delta)
    THEN ExceptBlock(AttributeErrorText)
    ELSE IF c.choices # <<>> /\ Truthy(c.choices[1].delta.dict.content)
    THEN Step(<<SSE(content_chunk(c))>>, "after_content", "")
    ELSE Line289(c)

\* line 302: after message_stop the loop goes on to the next chunk
AfterStop == Step(<<>>, "iter", "")

\* line 298: after message_delta, message_stop
AfterDelta == Step(<<SSE(stop_chunk)>>, "after_stop", "")

\* the generator returns: StopAsyncIteration reaches the consumer
Return == Step(<<>>, "done", "")

\* lines 211-234: what the standalone translator yields for one chunk
StandaloneChunkEvents(c) ==
    IF c.choices = <<>> THEN <<>>
    ELSE LET choice == c.choices[1]
         IN  IF /\ Truthy(choice.delta)
                /\ "content" \in DOMAIN choice.delta.dict
                /\ Truthy(choice.delta.dict.content)
             THEN <<SSE(content_chunk(c))>>
             ELSE IF Truthy(choice.finish_reason)
             THEN <<SSE(final_chunk(c)), SSE(stop_chunk)>>
             ELSE <<>>

\* lines 206-234: the standalone stream translator
RECURSIVE openai_stream_to_anthropic_chunks(_, _)
openai_stream_to_anthropic_chunks(openai_chunks, original_model) ==
    IF openai_chunks = <<>> THEN <<>>
    ELSE StandaloneChunkEvents(Head(openai_chunks))
         \o openai_stream_to_anthropic_chunks(Tail(openai_chunks), original_model)

\* mutant: the except clause catches BaseException, so the close is answered
\* with an error event
GeneratorClose_Caught == Step(<<SSE(error_chunk("cancelled"))>>, "after_error", "")

\* lines 264, 304: CancelledError (at an await) or GeneratorExit (at a yield)
\* is thrown into generate(); neither is an Exception, so `except Exception`
\* lets it through and the generator ends without yielding
GeneratorClose == Step(<<>>, "closed", "")

-----------------------------------------------------------------------------
(* The handler proxy_anthropic_request *)

\* lines 257-259: LMSTUDIO_API_KEY is empty, so only api_base is passed
llm_kwargs == [api_base |-> normalize_openai_base(LMSTUDIO_BASE_URL)]

\* the keyword arguments of the acompletion() call
CallArgs(oreq, streaming) ==
    LET args == [ model       |-> oreq.model,
                  messages    |-> oreq.messages,
                  temperature |-> Get(oreq, "temperature", None),
                  max_tokens  |-> Get(oreq, "max_tokens", None),
                  api_base    |-> llm_kwargs.api_base ]
    IN  IF streaming THEN args @@ [stream |-> TRUE] ELSE args

\* lines 335-339: every exception of the handler becomes HTTPException(500)
ProxyError(e) ==
    [ status |-> 500,
      detail |-> <<"Proxy error: ", e,
                   ". Check that your backend service is running at ">>
                 \o normalize_openai_base(LMSTUDIO_BASE_URL) ]

\* line 312
StreamingResponse == [status |-> 200, media_type |-> "text/event-stream"]

\* line 333: the dict is returned and serialised as the 200 response
JsonResponse(payload) == [status |-> 200, payload |-> payload]

ValidationErrorText == "validation error for AnthropicRequest"
BackendErrorText == "Connection refused"
StreamErrorText == "stream interrupted"

-----------------------------------------------------------------------------
(* Bounded inputs *)

MaxChunks == 3

SeqsUpTo(S, n) == UNION {[1..k -> S] : k \in 0..n}

Restrict(r, K) == [k \in K |-> r[k]]

\* backend delta chunks: zero or one choice, delta absent or with content
\* None, "" or text, finish_reason None or set
Deltas == {None} \cup {Dict([content |-> v]) : v \in {None, Str(""), Str("Hi"), Str(" there")}}

FinishReasons == {None, Str("stop")}

Chunks ==
    {[choices |-> <<>>]} \cup
    {[choices |-> <<[delta |-> d, finish_reason |-> f]>>] :
        d \in Deltas, f \in FinishReasons}

\* a backend stream: its chunks, and whether iteration raises after them
Streams == [chunks : SeqsUpTo(Chunks, MaxChunks), fails : BOOLEAN]

\* backend responses of a non-streaming call, any key possibly missing
Choices ==
    { [message |-> [role |-> "assistant", content |-> "Hello"], finish_reason |-> "length"],
      [message |-> [content |-> "Hello"]],
      [finish_reason |-> "stop"] }

FullResponses ==
    [ id      : {"chatcmpl-1"},
      model   : {LMSTUDIO_MODEL, "openai/google/gemma-3-4b"},
      created : {1700},
      usage   : {[prompt_tokens |-> 3, completion_tokens |-> 4]},
      choices : SeqsUpTo(Choices, 1) \cup {<<c, d>> : c \in {[finish_reason |-> "stop"]}, d \in Choices} ]

Responses == {Restrict(r, K) : r \in FullResponses, K \in SUBSET {"id", "model", "created", "usage", "choices"}}

\* inbound payloads
BaseBody ==
    [ model      |-> Str("claude-3-haiku-20240307"),
      messages   |-> List(<<[role |-> "user", content |-> Str("hi")]>>),
      max_tokens |-> Num(5) ]

TunedBody ==
    [ model       |-> Str("my-model"),
      messages    |-> List(<<[role |-> "user", content |-> List(<<Str("a")>>)],
                             [role |-> "assistant", content |-> Str("")]>>),
      system      |-> Str("be brief"),
      temperature |-> Num(1),
      top_p       |-> Num(1) ]

ValidBodies ==
    { BaseBody, TunedBody,
      [BaseBody EXCEPT !.model = Str("claude-haiku-4-5-20251001")],
      [BaseBody EXCEPT !.model = Str("openai/google/gemma-3-4b")] }
    \cup {b @@ [stream |-> Bool(TRUE)] : b \in {BaseBody, TunedBody}}

InvalidBodies ==
    { [BaseBody EXCEPT !.max_tokens = Num(0)],
      [BaseBody EXCEPT !.max_tokens = Str("many")],
      BaseBody @@ [temperature |-> Num(3)],
      BaseBody @@ [top_p |-> Num(2), stream |-> Bool(TRUE)],
      Restrict(BaseBody, {"messages", "max_tokens"}) }

Bodies == ValidBodies \cup InvalidBodies

\* validated requests handed to the request translator
MaxMessages == 2

ImageBlock == Dict([type |-> "image", data |-> "..."])

TextBlock(t) == Dict([type |-> "text", text |-> t])

RequestContents ==
    { Str(""), Str("hi"), List(<<>>), List(<<ImageBlock>>),
      List(<<TextBlock("a"), Str("b"), ImageBlock>>) }

RequestSystems ==
    { None, Str(""), Str("be brief"), List(<<ImageBlock>>),
      List(<<TextBlock("be "), TextBlock("brief")>>) }

Requests ==
    [ model       : {"claude-3-haiku-20240307", "my-model"},
      messages    : SeqsUpTo([role : {"user", "assistant", "system"},
                              content : RequestContents], MaxMessages),
      max_tokens  : {MinMaxTokens, DefaultMaxTokens},
      temperature : {None, Num(0), Num(1)},
      top_p       : {None, Num(1)},
      stream      : {FALSE},
      system      : RequestSystems ]

\* content lists handed to the content extractor through a message
MaxParts == 3

ContentParts ==
    { Str("b"), Str(""), TextBlock("a"), Dict([type |-> "text"]),
      Dict([type |-> "image", text |-> "x"]), ImageBlock, Num(7) }

ContentLists == SeqsUpTo(ContentParts, MaxParts)

\* concurrent streaming calls and the backend streams they are given
Calls == {"a", "b"}

MaxConcurrentChunks == 2

ConcurrentChunks ==
    { [choices |-> <<[delta |-> Dict([content |-> Str("Hi")]), finish_reason |-> None]>>],
      [choices |-> <<[delta |-> Dict([content |-> Str(" there")]), finish_reason |-> Str("stop")]>>],
      [choices |-> <<[delta |-> Dict([content |-> None]), finish_reason |-> Str("stop")]>>],
      [choices |-> <<[delta |-> None, finish_reason |-> None]>>] }

ConcurrentStreams ==
    [chunks : SeqsUpTo(ConcurrentChunks, MaxConcurrentChunks), fails : {FALSE}]

\* the frame of a generate() that has not run yet
IdleCall ==
    [ gen_pc |-> "start",
      stream |-> [chunks |-> <<>>, fails |-> FALSE],
      pos    |-> 0,
      chunk  |-> None,
      events |-> <<>> ]

-----------------------------------------------------------------------------
(* Actions *)

Init ==
    /\ pc = "idle"
    /\ body = EmptyDict
    /\ anthropic_req = EmptyDict
    /\ openai_request = EmptyDict
    /\ outcome = [status |-> 0]
    /\ backend_calls = <<>>
    /\ gen_pc = "none"
    /\ stream = [chunks |-> <<>>, fails |-> FALSE]
    /\ pos = 0
    /\ chunk = None
    /\ events = <<>>
    /\ demand = FALSE
    /\ response = EmptyDict
    /\ raised = ""
    /\ closed = FALSE
    /\ calls = [c \in Calls |-> IdleCall]

\* lines 242-261, 312, 316: the handler up to its first await on the backend,
\* or up to returning the StreamingResponse, or to the except block
Receive ==
    /\ pc = "idle"
    /\ \E b \in Bodies :
        /\ body' = b
        /\ IF ~ValidRequest(b)
           THEN /\ pc' = "returned"
                /\ raised' = ValidationErrorText
                /\ outcome' = ProxyError(ValidationErrorText)
                /\ UNCHANGED <<anthropic_req, openai_request, backend_calls, gen_pc>>
           ELSE LET req == AnthropicRequest(b)
                    oreq == anthropic_to_openai_format(req)
                IN  /\ anthropic_req' = req
                    /\ openai_request' = oreq
                    /\ raised' = raised
                    /\ IF req.stream
                       THEN /\ pc' = "streaming"
                            /\ outcome' = StreamingResponse
                            /\ gen_pc' = "start"
                            /\ UNCHANGED backend_calls
                       ELSE /\ pc' = "await_backend"
                            /\ backend_calls' = Append(backend_calls, CallArgs(oreq, FALSE))
                            /\ UNCHANGED <<outcome, gen_pc>>
    /\ UNCHANGED <<stream, pos, chunk, events, demand, response, closed, calls>>

\* lines 316-333: the non-streaming call returns a response
BackendReturn ==
    /\ pc = "await_backend"
    /\ \E r \in Responses :
        /\ response' = r
        /\ outcome' = JsonResponse(openai_to_anthropic_format(
                          dump_openai_response(r), anthropic_req.model))
    /\ pc' = "returned"
    /\ UNCHANGED <<body, anthropic_req, openai_request, backend_calls, raised, genVars>>

\* lines 316, 335-339: the non-streaming call raises
BackendRaise ==
    /\ pc = "await_backend"
    /\ raised' = BackendErrorText
    /\ outcome' = ProxyError(BackendErrorText)
    /\ pc' = "returned"
    /\ UNCHANGED <<body, anthropic_req, openai_request, backend_calls, response, genVars>>

\* the HTTP layer iterates the StreamingResponse body: generate().__anext__()
ConsumerNext ==
    /\ pc = "streaming"
    /\ gen_pc # "done"
    /\ ~closed
    /\ ~demand
    /\ demand' = TRUE
    /\ UNCHANGED <<handlerVars, closed, calls, backend_calls, raised,
                   gen_pc, stream, pos, chunk, events>>

\* the HTTP layer stops iterating: the client went away, the response task
\* is cancelled or the generator is closed at its suspension point
ConsumerClose ==
    /\ pc = "streaming"
    /\ gen_pc # "done"
    /\ ~closed
    /\ closed' = TRUE
    /\ events' = events \o GeneratorClose.emit
    /\ gen_pc' = GeneratorClose.at
    /\ demand' = FALSE
    /\ UNCHANGED <<handlerVars, calls, backend_calls, raised, stream, pos, chunk>>

\* mutant: generate() does not wait for the consumer after a yield
Resume_Eager(step) ==
    /\ events' = events \o step.emit
    /\ gen_pc' = step.at
    /\ demand' = (step.at # "done")
    /\ raised' = IF step.exc # "" THEN step.exc ELSE raised

\* generate() runs to its next suspension point
Resume(step) ==
    /\ events' = events \o step.emit
    /\ gen_pc' = step.at
    /\ demand' = (step.emit = <<>> /\ step.at # "done")
    /\ raised' = IF step.exc # "" THEN step.exc ELSE raised

\* lines 266-273: the streaming call returns the backend stream
GenCall ==
    /\ gen_pc = "start" /\ demand
    /\ backend_calls' = Append(backend_calls, CallArgs(openai_request, TRUE))
    /\ \E s \in Streams : stream' = s
    /\ gen_pc' = "iter"
    /\ UNCHANGED <<handlerVars, closed, calls, raised, pos, chunk, events, demand>>

\* lines 266-273, 304-310: the streaming call raises
GenCallRaise ==
    /\ gen_pc = "start" /\ demand
    /\ backend_calls' = Append(backend_calls, CallArgs(openai_request, TRUE))
    /\ Resume(ExceptBlock(BackendErrorText))
    /\ UNCHANGED <<handlerVars, closed, calls, stream, pos, chunk>>

\* line 276: the backend stream delivers its next chunk; lines 277-298 run
\* up to the first yield or back to the head of the loop
GenChunk ==
    /\ gen_pc = "iter" /\ demand
    /\ pos < Len(stream.chunks)
    /\ pos' = pos + 1
    /\ chunk' = stream.chunks[pos + 1]
    /\ Resume(Line277(stream.chunks[pos + 1]))
    /\ UNCHANGED <<handlerVars, closed, calls, backend_calls, stream>>

\* line 276: the backend stream is exhausted and the loop ends
GenStreamEnd ==
    /\ gen_pc = "iter" /\ demand
    /\ pos = Len(stream.chunks) /\ ~stream.fails
    /\ Resume(Return)
    /\ UNCHANGED <<handlerVars, closed, calls, backend_calls, stream, pos, chunk>>

\* line 276, 304-310: iterating the backend stream raises
GenStreamRaise ==
    /\ gen_pc = "iter" /\ demand
    /\ pos = Len(stream.chunks) /\ stream.fails
    /\ Resume(ExceptBlock(StreamErrorText))
    /\ UNCHANGED <<handlerVars, closed, calls, backend_calls, stream, pos, chunk>>

\* resumed after the yield of line 287
GenAfterContent ==
    /\ gen_pc = "after_content" /\ demand
    /\ Resume(Line289(chunk))
    /\ UNCHANGED <<handlerVars, closed, calls, backend_calls, stream, pos, chunk>>

\* resumed after the yield of line 298
GenAfterDelta ==
    /\ gen_pc = "after_delta" /\ demand
    /\ Resume(AfterDelta)
    /\ UNCHANGED <<handlerVars, closed, calls, backend_calls, stream, pos, chunk>>

\* resumed after the yield of line 302
GenAfterStop ==
    /\ gen_pc = "after_stop" /\ demand
    /\ Resume(AfterStop)
    /\ UNCHANGED <<handlerVars, closed, calls, backend_calls, stream, pos, chunk>>

\* resumed after the yield of line 310: generate() ends
GenAfterError ==
    /\ gen_pc = "after_error" /\ demand
    /\ Resume(Return)
    /\ UNCHANGED <<handlerVars, closed, calls, backend_calls, stream, pos, chunk>>

Next ==
    \/ Receive
    \/ BackendReturn
    \/ BackendRaise
    \/ ConsumerNext
    \/ ConsumerClose
    \/ GenCall
    \/ GenCallRaise
    \/ GenChunk
    \/ GenStreamEnd
    \/ GenStreamRaise
    \/ GenAfterContent
    \/ GenAfterDelta
    \/ GenAfterStop
    \/ GenAfterError

Spec == Init /\ [][Next]_vars

\* lines 116-151 on their own: the request translator applied to a request
TranslateRequest ==
    /\ pc = "idle"
    /\ \E req \in Requests :
        /\ anthropic_req' = req
        /\ openai_request' = anthropic_to_openai_format(req)
    /\ pc' = "translated"
    /\ UNCHANGED <<body, outcome, response, backend_calls, raised, genVars>>

SpecRequest == Init /\ [][TranslateRequest]_vars

\* Two or more streaming calls run on one event loop: each has its own
\* generate() frame and interleaves with the others at its suspension
\* points.  Here the variable chunk holds the chunk most recently pulled by
\* any call; no frame reads it.
singleCallVars ==
    <<handlerVars, backend_calls, raised, gen_pc, stream, pos, events,
      demand, closed>>

\* mutant: the loop variable is one module-level variable for all calls
LoopChunk_Shared(c) == chunk

\* line 276: chunk is a local of call c's generate() frame
LoopChunk(c) == calls[c].chunk

\* call c runs to its next suspension point
CallResume(c, step) ==
    calls' = [calls EXCEPT ![c].events = @ \o step.emit, ![c].gen_pc = step.at]

\* lines 266-273: the streaming call of c returns its backend stream
CallStart(c) ==
    /\ calls[c].gen_pc = "start"
    /\ \E s \in ConcurrentStreams :
          calls' = [calls EXCEPT ![c].stream = s, ![c].gen_pc = "iter"]
    /\ UNCHANGED <<singleCallVars, chunk>>

\* line 276 on: c's backend stream delivers its next chunk
CallChunk(c) ==
    LET next == calls[c].stream.chunks[calls[c].pos + 1]
        step == Line277(next)
    IN  /\ calls[c].gen_pc = "iter"
        /\ calls[c].pos < Len(calls[c].stream.chunks)
        /\ calls' = [calls EXCEPT ![c].pos = @ + 1,
                                  ![c].chunk = next,
                                  ![c].events = @ \o step.emit,
                                  ![c].gen_pc = step.at]
        /\ chunk' = next
        /\ UNCHANGED singleCallVars

\* line 276: c's backend stream is exhausted
CallStreamEnd(c) ==
    /\ calls[c].gen_pc = "iter"
    /\ calls[c].pos = Len(calls[c].stream.chunks)
    /\ CallResume(c, Return)
    /\ UNCHANGED <<singleCallVars, chunk>>

\* c is resumed after the yield of line 287
CallAfterContent(c) ==
    /\ calls[c].gen_pc = "after_content"
    /\ CallResume(c, Line289(LoopChunk(c)))
    /\ UNCHANGED <<singleCallVars, chunk>>

\* c is resumed after the yield of line 298
CallAfterDelta(c) ==
    /\ calls[c].gen_pc = "after_delta"
    /\ CallResume(c, AfterDelta)
    /\ UNCHANGED <<singleCallVars, chunk>>

\* c is resumed after the yield of line 302
CallAfterStop(c) ==
    /\ calls[c].gen_pc = "after_stop"
    /\ CallResume(c, AfterStop)
    /\ UNCHANGED <<singleCallVars, chunk>>

\* c is resumed after the yield of line 310
CallAfterError(c) ==
    /\ calls[c].gen_pc = "after_error"
    /\ CallResume(c, Return)
    /\ UNCHANGED <<singleCallVars, chunk>>

NextConcurrent ==
    \E c \in Calls :
        \/ CallStart(c)
        \/ CallChunk(c)
        \/ CallStreamEnd(c)
        \/ CallAfterContent(c)
        \/ CallAfterDelta(c)
        \/ CallAfterStop(c)
        \/ CallAfterError(c)

SpecConcurrent == Init /\ [][NextConcurrent]_vars

\* lines 263-310 run without interruption: the events generate() yields
\* from position `at` on, `p` chunks of stream s having been pulled
RECURSIVE RunAlone(_, _, _)
RunAlone(s, p, at) ==
    IF at = "iter"
    THEN IF p < Len(s.chunks)
         THEN LET step == Line277(s.chunks[p + 1])
              IN  step.emit \o RunAlone(s, p + 1, step.at)
         ELSE IF s.fails THEN ExceptBlock(StreamErrorText).emit ELSE <<>>
    ELSE IF at = "after_content"
    THEN LET step == Line289(s.chunks[p])
         IN  step.emit \o RunAlone(s, p, step.at)
    ELSE IF at = "after_delta"
    THEN AfterDelta.emit \o RunAlone(s, p, AfterDelta.at)
    ELSE IF at = "after_stop"
    THEN AfterStop.emit \o RunAlone(s, p, AfterStop.at)
    ELSE <<>>

\* lines 134-137 with lines 97-113: the content extractor applied to the list
\* content of a request's only message
ExtractContent ==
    /\ pc = "idle"
    /\ \E parts \in ContentLists :
        LET req == [ model       |-> "my-model",
                     messages    |-> <<[role |-> "user", content |-> List(parts)]>>,
                     max_tokens  |-> DefaultMaxTokens,
                     temperature |-> None,
                     top_p       |-> None,
                     stream      |-> FALSE,
                     system      |-> None ]
        IN  /\ anthropic_req' = req
            /\ openai_request' = anthropic_to_openai_format(req)
    /\ pc' = "extracted"
    /\ UNCHANGED <<body, outcome, response, backend_calls, raised, genVars>>

SpecExtract == Init /\ [][ExtractContent]_vars

-----------------------------------------------------------------------------
(* Properties of the streaming call *)

EventType(i) == events[i].data.type

EventsOfType(t) == {i \in DOMAIN events : EventType(i) = t}

\* whether a chunk carries a non-empty text delta, a finish_reason
HasText(c) ==
    /\ c.choices # <<>>
    /\ ~IsNone(c.choices[1].delta)
    /\ Truthy(c.choices[1].delta.dict.content)

HasFinish(c) == c.choices # <<>> /\ Truthy(c.choices[1].finish_reason)

IsContentDelta(ev) == ev.data.type = "content_block_delta"

\* the texts of the content_block_delta events emitted, in order
EmittedTexts ==
    LET ds == SelectSeq(events, IsContentDelta)
    IN  [i \in DOMAIN ds |-> ds[i].data.delta.text]

\* the non-empty text deltas of a chunk sequence, in order
ChunkTexts(cs) ==
    LET ts == SelectSeq(cs, HasText)
    IN  [i \in DOMAIN ts |-> ts[i].choices[1].delta.dict.content.str]

\* C1: once message_stop has been emitted, chunks that arrive afterwards make
\* the stream emit no further event: while nothing was raised, a message_stop
\* event is the last event of the sequence, so there is at most one
\* message_delta/message_stop termination sequence.
C1_NothingAfterMessageStop ==
    raised = "" =>
        /\ \A i \in EventsOfType("message_stop") : i = Len(events)
        /\ Cardinality(EventsOfType("message_delta")) <= 1

\* C2: when the backend stream fails, one error event (kind api_error, the
\* message text) is emitted and it is the last event: an error event is never
\* followed by another event, and the generator only ends after it.
C2_ErrorEventIsLast ==
    /\ \A i \in EventsOfType("error") : i = Len(events)
    /\ EventsOfType("error") # {} => gen_pc \in {"after_error", "done", "closed"}
    /\ (pc = "streaming" /\ raised # "") =>
          /\ events # <<>>
          /\ events[Len(events)] = SSE(error_chunk(raised))
          /\ events[Len(events)].data.error.type = "api_error"

\* a stream that failed after a complete termination sequence, run to its end
C2_Witness ==
    /\ raised = StreamErrorText
    /\ gen_pc = "done"
    /\ EventsOfType("message_stop") # {}
    /\ EventType(Len(events)) = "error"

\* C3: when the call has ended, the content_block_delta events are exactly
\* the non-empty text deltas of the backend's chunks, in order, at index 0.
C3_DeltasMirrorChunks ==
    gen_pc = "done" =>
        /\ EmittedTexts = ChunkTexts(stream.chunks)
        /\ \A i \in EventsOfType("content_block_delta") : events[i].data.index = 0

\* C4: when the call has ended, the last event is the sentinel message_stop,
\* or error when an exception was raised.
C4_EndsWithSentinel ==
    gen_pc = "done" =>
        /\ events # <<>>
        /\ EventType(Len(events)) = IF raised # "" THEN "error" ELSE "message_stop"

\* C5: pulling a chunk with neither a text delta nor a finish_reason (or with
\* zero choices) emits no event and leaves the loop ready for the next chunk.
C5_SilentChunkEmitsNothing ==
    [][ ( /\ gen_pc = "iter"
          /\ pos' = pos + 1
          /\ ~HasText(chunk')
          /\ ~HasFinish(chunk') )
        => (events' = events /\ gen_pc' = "iter") ]_vars

-----------------------------------------------------------------------------
(* Properties of the handler *)

\* C7: a payload that fails validation yields a 4xx outcome, and no backend
\* call is made for it.
C7_InvalidPayloadIsBadRequest ==
    (pc # "idle" /\ ~ValidRequest(body)) =>
        /\ outcome.status \in 400..499
        /\ backend_calls = <<>>

\* C8: a backend call that raises before a stream is open yields the 500
\* outcome with the error text and the base URL, and no event.
C8_CallFailureIsProxyError ==
    raised = BackendErrorText =>
        /\ outcome = ProxyError(BackendErrorText)
        /\ events = <<>>

\* the model the backend reported, "" when it reported none
ReportedModel == Get(response, "model", "")

Returned200 == pc = "returned" /\ "payload" \in DOMAIN outcome

C10_EmptyChoices ==
    (pc = "returned" /\ raised = "" /\ Get(response, "choices", <<>>) = <<>>) =>
        /\ outcome.status = 200
        /\ outcome.payload.content = <<[type |-> "text", text |-> ""]>>
        /\ outcome.payload.role = "assistant"
        /\ \A k \in {"id", "created", "usage"} \cap DOMAIN response :
              outcome.payload[k] = response[k]

\* a response with choices: [] that carries id, created and usage
C10_Witness ==
    /\ Returned200
    /\ {"id", "created", "usage", "choices"} \subseteq DOMAIN response
    /\ response.choices = <<>>

-----------------------------------------------------------------------------
(* Properties of the request translator *)

TranslatedMessages == openai_request.messages.list

\* C6 as stated: the translated messages have the length and the role order
\* of the original messages, with or without a system field.
C6_SameLengthAndRoles ==
    pc = "translated" =>
        /\ Len(TranslatedMessages) = Len(anthropic_req.messages)
        /\ \A i \in DOMAIN anthropic_req.messages :
              TranslatedMessages[i].role = anthropic_req.messages[i].role

\* C6 amended: the translated messages are the original messages, in order
\* and with their roles, none dropped even when its text is empty, preceded by
\* one system message exactly when the system field holds non-empty text.
C6_MessagesPreservedAfterSystem ==
    pc = "translated" =>
        LET msgs == anthropic_req.messages
            k == Len(TranslatedMessages) - Len(msgs)
        IN  /\ k \in {0, 1}
            /\ k = 1 <=> extract_text_blocks(anthropic_req.system) # ""
            /\ k = 1 => /\ TranslatedMessages[1].role = "system"
                        /\ TranslatedMessages[1].content # ""
            /\ anthropic_req.system \in {None, Str("")} => k = 0
            /\ \A i \in DOMAIN msgs :
                  TranslatedMessages[i + k].role = msgs[i].role

\* a request with system text and two messages, one of them with empty text
C6_Witness ==
    /\ pc = "translated"
    /\ anthropic_req.system = Str("be brief")
    /\ Len(anthropic_req.messages) = 2
    /\ Len(TranslatedMessages) = 3
    /\ TranslatedMessages[3].content = ""

-----------------------------------------------------------------------------
(* Properties of the response translator's field set *)

ResponseFields ==
    {"id", "model", "created", "content", "role",
     "stop_reason", "stop_sequence", "usage"}

\* C11: every non-streaming response, the one for a backend response with
\* no choices included, carries all eight response fields, and its
\* stop_sequence field is present and null.
C11_AllEightFields ==
    Returned200 =>
        /\ ResponseFields \subseteq DOMAIN outcome.payload
        /\ outcome.payload.stop_sequence = None

-----------------------------------------------------------------------------
(* Properties of the translated request's optional parameters *)

\* C12: the translated request contains no key whose value is null:
\* temperature and top_p appear in it exactly when the request supplied them,
\* with the supplied value, and max_tokens is copied verbatim.
C12_NoNullKeys ==
    pc = "translated" =>
        /\ \A k \in DOMAIN openai_request : ~IsNone(openai_request[k])
        /\ \A k \in {"temperature", "top_p"} :
              /\ k \in DOMAIN openai_request <=> ~IsNone(anthropic_req[k])
              /\ k \in DOMAIN openai_request =>
                    openai_request[k] = anthropic_req[k]
        /\ "max_tokens" \in DOMAIN openai_request
        /\ openai_request.max_tokens = Num(anthropic_req.max_tokens)

\* a request that supplies temperature 0 and no top_p
C12_Witness ==
    /\ pc = "translated"
    /\ anthropic_req.temperature = Num(0)
    /\ IsNone(anthropic_req.top_p)
    /\ openai_request.temperature = Num(0)
    /\ "top_p" \notin DOMAIN openai_request

-----------------------------------------------------------------------------
(* Properties of the content extractor *)

\* what the claim says one element of a content list contributes
Contribution(part) ==
    IF IsStr(part) THEN part.str
    ELSE IF IsDict(part) /\ "type" \in DOMAIN part.dict
                         /\ part.dict.type = "text"
         THEN IF "text" \in DOMAIN part.dict THEN part.dict.text ELSE ""
         ELSE ""

\* the contributions of the first n elements, in order
RECURSIVE ConcatFirst(_, _)
ConcatFirst(parts, n) ==
    IF n = 0 THEN "" ELSE ConcatFirst(parts, n - 1) \o Contribution(parts[n])

ExtractedInput == anthropic_req.messages[1].content.list

ExtractedText == openai_request.messages.list[1].content

\* C13: for list content the extracted text is the concatenation, in order,
\* of the plain-string elements and of the text field of the blocks whose
\* type is "text" ("" when the field is missing); every other block
\* contributes nothing, so [text "a", "b", image] gives "ab".
C13_ListContentConcatenation ==
    pc = "extracted" =>
        /\ ExtractedText = ConcatFirst(ExtractedInput, Len(ExtractedInput))
        /\ ExtractedInput = <<TextBlock("a"), Str("b"), ImageBlock>> =>
              ExtractedText = "ab"

\* a plain string, a text block without text field, an image block that has
\* a text field, and a text block, in that order
C13_Witness ==
    /\ pc = "extracted"
    /\ ExtractedInput = <<Str("b"), Dict([type |-> "image", text |-> "x"]),
                          TextBlock("a")>>
    /\ ExtractedText = "ba"

-----------------------------------------------------------------------------
(* Properties of the termination sequence *)

\* no chunk before the current one carried a finish_reason
NoEarlierFinish == \A j \in 1..(pos - 1) : ~HasFinish(stream.chunks[j])

\* the generator has run past the yields of the current chunk
ChunkHandled == gen_pc \in {"after_stop", "iter", "after_error", "done"}

\* C14: while the stream has not terminated, a chunk carrying a finish_reason
\* produces exactly one message_delta, with that finish_reason as stop_reason
\* and a null stop_sequence, immediately followed by exactly one
\* message_stop, whether or not the chunk also carries a text delta; when it
\* does, the content_block_delta comes first.
C14_FinishChunkTerminates ==
    (pos >= 1 /\ HasFinish(chunk) /\ NoEarlierFinish /\ ChunkHandled) =>
        /\ Cardinality(EventsOfType("message_delta")) = 1
        /\ Cardinality(EventsOfType("message_stop")) = 1
        /\ \E i \in DOMAIN events :
              /\ events[i].data =
                    [ type  |-> "message_delta",
                      delta |-> [stop_reason |-> chunk.choices[1].finish_reason.str,
                                 stop_sequence |-> None] ]
              /\ i + 1 \in DOMAIN events
              /\ events[i + 1].data = [type |-> "message_stop"]
              /\ HasText(chunk) =>
                    /\ i - 1 \in DOMAIN events
                    /\ IsContentDelta(events[i - 1])
                    /\ events[i - 1].data.delta.text =
                          chunk.choices[1].delta.dict.content.str

-----------------------------------------------------------------------------
(* Properties of the backend call *)

TranslatedParameters ==
    {"model", "messages", "temperature", "top_p", "max_tokens"}

\* C15: in both dispatch modes the backend is called with the translated
\* request: model, messages, temperature, top_p and max_tokens of the call
\* are those of the translated request, so a supplied top_p is forwarded, and
\* a parameter absent from the translated request is not passed as null.
C15_BackendGetsTranslatedRequest ==
    \A n \in DOMAIN backend_calls :
        \A k \in TranslatedParameters :
            /\ k \in DOMAIN openai_request =>
                  /\ k \in DOMAIN backend_calls[n]
                  /\ backend_calls[n][k] = openai_request[k]
            /\ (k \notin DOMAIN openai_request /\ k \in DOMAIN backend_calls[n]) =>
                  ~IsNone(backend_calls[n][k])

\* C16: the backend is called at most once per request, whatever the outcome
\* (validation failure, call failure, stream failure or success); a
\* non-streaming success has issued exactly one call and returns one payload.
C16_AtMostOneBackendCall ==
    /\ Len(backend_calls) <= 1
    /\ Returned200 => Len(backend_calls) = 1

\* a streaming call whose backend stream failed after a chunk: one call
C16_Witness ==
    /\ pc = "streaming"
    /\ gen_pc = "done"
    /\ raised = StreamErrorText
    /\ pos >= 1
    /\ Len(backend_calls) = 1

-----------------------------------------------------------------------------
(* Properties of the consumer's side of the stream *)

\* C17: when the consumer closes the event sequence while a stream is in
\* progress, the close itself and everything after it pull no further chunk
\* from the backend stream, call the backend no more and emit no further
\* event, in particular no error event: the stream is not drained.
C17_NothingAfterClose ==
    [][closed' => /\ events' = events
                  /\ pos' = pos
                  /\ backend_calls' = backend_calls]_vars

\* closed in the middle of a stream: an event was emitted, chunks remain
C17_Witness ==
    /\ closed
    /\ events # <<>>
    /\ pos >= 1
    /\ pos < Len(stream.chunks)
    /\ raised = ""

\* C18: the streaming call is lazy and consumer-driven: a chunk is pulled
\* from the backend stream only while the consumer is waiting for the next
\* event, and every event is emitted one at a time to a waiting consumer,
\* after which the generator does nothing until the consumer asks again; so
\* the events of chunk i are all handed over before chunk i+1 is requested.
C18_ConsumerDriven ==
    [][/\ pos' # pos => demand
       /\ events' # events => /\ demand
                              /\ ~demand'
                              /\ Len(events') = Len(events) + 1]_vars

\* the second chunk was pulled after the first one's three events were drained
C18_Witness ==
    /\ pos = 2
    /\ HasText(stream.chunks[1])
    /\ HasFinish(stream.chunks[1])
    /\ Len(events) >= 3
    /\ ~closed

-----------------------------------------------------------------------------
(* Properties of concurrent streaming calls *)

IsPrefix(s, t) == Len(s) <= Len(t) /\ SubSeq(t, 1, Len(s)) = s

\* C19: however two concurrent streaming calls interleave at their
\* suspension points, the events each call has emitted are a prefix of what
\* it emits for its own backend stream when run alone, and the whole of it
\* once the call has ended: no call reads what another has written.
C19_CallsAreIndependent ==
    \A c \in Calls :
        LET alone == RunAlone(calls[c].stream, 0, "iter")
        IN  /\ IsPrefix(calls[c].events, alone)
            /\ calls[c].gen_pc = "done" => calls[c].events = alone

\* call a is suspended at the yield of a text delta whose chunk also carries
\* a finish_reason, and call b has since pulled a chunk that carries none
C19_Witness ==
    /\ calls["a"].gen_pc = "after_content"
    /\ HasFinish(calls["a"].chunk)
    /\ calls["b"].pos >= 1
    /\ chunk = calls["b"].chunk
    /\ ~HasFinish(calls["b"].chunk)

\* the single streaming call of Spec, left to run to its end, emits what
\* RunAlone computes for its backend stream
RunAloneIsGenerate ==
    (gen_pc = "done" /\ raised # BackendErrorText) =>
        events = RunAlone(stream, 0, "iter")

-----------------------------------------------------------------------------
(* The standalone stream translator against the inline loop *)

\* C20: the standalone translator openai_stream_to_anthropic_chunks and the
\* inline loop of generate() are equivalent: for every finite sequence of
\* backend chunks, a chunk with both a text delta and a finish_reason and a
\* chunk without delta included, a stream run to its end has emitted the
\* events the standalone translator yields for the same chunks.
C20_StandaloneEqualsInline ==
    (gen_pc = "done" /\ ~stream.fails /\ raised # BackendErrorText) =>
        events = openai_stream_to_anthropic_chunks(stream.chunks,
                                                   anthropic_req.model)

====
